---- MODULE Spec2Model ----
(***************************************************************************)
(* Open-addressing hash table with linear probing and tombstones           *)
(* (src/main.cpp): HashTable, its two hash strategies, and the benchmark   *)
(* harness main -> runTest.                                                *)
(*                                                                         *)
(* Vectors are 0-indexed in the source and 1-indexed here: slot idx of the *)
(* source is element idx + 1 of the sequences keys and states.             *)
(***************************************************************************)
EXTENDS Integers, Sequences, FiniteSets, TLC

VARIABLES
    keys,        \* HashTable::keys, std::vector<int>
    states,      \* HashTable::states, std::vector<State>
    sz,          \* HashTable::sz
    hashFunc,    \* HashTable::hashFunc: "fibonacciHash" or "moduloHash"
    diverged,    \* TRUE once control is stuck in a loop that never exits
    op,          \* the call that produced this state
    arg,         \* its argument
    ret,         \* its return value ("void" when it returns nothing)
    probes,      \* slots examined by the while condition of the last contains/remove
    inserted,    \* keys that were an argument of insert since construction
    distinctInserts,  \* TRUE while every mutating call since construction inserted a new key
    pc,          \* main / runTest: the statement control is at
    numKeys,     \* main: numKeys
    datasets,    \* main: <<randomKeys, sequentialKeys, clusteredKeys>>
    dsIdx,       \* main: position of ds in datasets (1..3)
    runIdx,      \* runTest: i
    pos,         \* runTest: position of k in keys within the current pass (1-based)
    snapshot,    \* runTest: loadFactor, avgChain, maxChain, mem
    results      \* main: the Metrics returned by the runTest calls so far

tableVars == <<keys, states, sz, diverged, op, arg, ret, probes, inserted, distinctInserts>>

harnessVars == <<pc, numKeys, datasets, dsIdx, runIdx, pos, snapshot, results>>

vars == <<keys, states, sz, hashFunc, diverged, op, arg, ret, probes, inserted, distinctInserts,
          pc, numKeys, datasets, dsIdx, runIdx, pos, snapshot, results>>

----------------------------------------------------------------------------
(* Bounds of the model *)

\* initial capacities 1..MaxInitCap
MaxInitCap == 2

\* keys MinKey..MaxKey, with MinKey = -1
MaxKey == 1

\* an insert whose growth would pass this capacity is not taken
MaxCapacity == 11

MinKey == 0 - 1

Keys == MinKey..MaxKey

HashFuncs == {"fibonacciHash", "moduloHash"}

----------------------------------------------------------------------------
(* 32-bit unsigned arithmetic on 16-bit halves <<hi, lo>>, so that no      *)
(* intermediate value leaves the 32-bit signed range.                      *)

Half == 65536

\* static_cast<uint32_t>(key): key mod 2^32 as <<hi, lo>>
ToU32(key) == <<(key \div Half) % Half, key % Half>>

\* (a * b) mod 2^16 for 0 <= a, b < 2^16
MulMod16(a, b) == ((((a \div 256) * b) % 256) * 256 + (a % 256) * b) % Half

\* fib = 2654435769 = FibHi * 2^16 + FibLo
FibHi == 40503

FibLo == 31161

\* u * fib in uint32_t arithmetic (the product wraps mod 2^32)
MulFib(u) ==
    LET low == u[2] * FibLo
    IN  <<((low \div Half) + MulMod16(u[1], FibLo) + MulMod16(u[2], FibHi)) % Half,
          low % Half>>

\* u % n for a uint32_t u and 1 <= n < 2^15
U32Mod(u, n) == ((u[1] % n) * (Half % n) + u[2]) % n

\* return (static_cast<uint64_t>(static_cast<uint32_t>(key) * fib)) % tableSize;
fibonacciHash(key, tableSize) == U32Mod(MulFib(ToU32(key)), tableSize)

\* Fault variant of moduloHash: the static_cast<uint32_t> is left out, so a
\* negative key is converted to the 64-bit size_t (key + 2^64) before %.
moduloHashNoCast(key, tableSize) ==
    LET p32 == ((Half % tableSize) * (Half % tableSize)) % tableSize
    IN  IF key >= 0 THEN key % tableSize
        ELSE ((key % tableSize) + ((p32 * p32) % tableSize)) % tableSize

\* return static_cast<uint32_t>(key) % tableSize;
moduloHash(key, tableSize) == U32Mod(ToU32(key), tableSize)

\* the call hashFunc(key, keys.size()) through the std::function member
CallHash(f, key, tableSize) ==
    IF f = "fibonacciHash" THEN fibonacciHash(key, tableSize)
    ELSE moduloHash(key, tableSize)

----------------------------------------------------------------------------
(* isPrime / nextPrime *)

RECURSIVE IsPrimeLoop(_, _)
IsPrimeLoop(n, i) ==
    IF i * i <= n
    THEN IF n % i = 0 THEN FALSE ELSE IsPrimeLoop(n, i + 1)
    ELSE TRUE

\* Fault variant of isPrime: the loop condition is i * i < n, so the square of
\* a prime passes for a prime.
RECURSIVE IsPrimeLoopStrict(_, _)
IsPrimeLoopStrict(n, i) ==
    IF i * i < n
    THEN IF n % i = 0 THEN FALSE ELSE IsPrimeLoopStrict(n, i + 1)
    ELSE TRUE

isPrimeStrictSquare(n) == IF n < 2 THEN FALSE ELSE IsPrimeLoopStrict(n, 2)

isPrime(n) == IF n < 2 THEN FALSE ELSE IsPrimeLoop(n, 2)

RECURSIVE nextPrime(_)
nextPrime(n) == IF isPrime(n) THEN n ELSE nextPrime(n + 1)

----------------------------------------------------------------------------
(* HashTable.  A table value is a record [keys, states, sz, diverged].     *)

Table(ks, ss, s) == [keys |-> ks, states |-> ss, sz |-> s, diverged |-> FALSE]

This == Table(keys, states, sz)

Capacity(t) == Len(t.keys)

\* HashTable(capacity, func): keys(capacity) value-initialises to 0
Construct(capacity) ==
    Table([i \in 1..capacity |-> 0], [i \in 1..capacity |-> "Empty"], 0)

\* Fault variant of the probe loop of insertInternal: it steps to the slot
\* before, (idx + capacity - 1) % capacity, instead of the slot after.
RECURSIVE InsertProbeBackward(_, _, _, _)
InsertProbeBackward(t, key, idx, n) ==
    IF t.states[idx + 1] = "Filled"
    THEN IF t.keys[idx + 1] = key THEN [idx |-> idx, found |-> TRUE]
         ELSE IF n >= Capacity(t) THEN [idx |-> 0 - 1, found |-> FALSE]
         ELSE InsertProbeBackward(t, key, (idx + Capacity(t) - 1) % Capacity(t), n + 1)
    ELSE [idx |-> idx, found |-> FALSE]

\* The probe loop of insertInternal.  It has no wrap-around guard: when every
\* slot is Filled with another key it never exits, which is reported as -1
\* after n = capacity slots were passed.
RECURSIVE InsertProbe(_, _, _, _)
InsertProbe(t, key, idx, n) ==
    IF t.states[idx + 1] = "Filled"
    THEN IF t.keys[idx + 1] = key THEN [idx |-> idx, found |-> TRUE]
         ELSE IF n >= Capacity(t) THEN [idx |-> 0 - 1, found |-> FALSE]
         ELSE InsertProbe(t, key, (idx + 1) % Capacity(t), n + 1)
    ELSE [idx |-> idx, found |-> FALSE]

\* Fault variant of insertInternal: marks the slot Filled and counts it, but
\* omits keys[idx] = key, so the slot keeps its stale value.
insertInternalKeepsStaleKey(t, f, key) ==
    LET p == InsertProbe(t, key, CallHash(f, key, Capacity(t)), 0)
    IN  IF p.found THEN t
        ELSE IF p.idx < 0 THEN [t EXCEPT !.diverged = TRUE]
        ELSE [t EXCEPT !.states[p.idx + 1] = "Filled", !.sz = t.sz + 1]

insertInternal(t, f, key) ==
    LET p == InsertProbe(t, key, CallHash(f, key, Capacity(t)), 0)
    IN  IF p.found THEN t
        ELSE IF p.idx < 0 THEN [t EXCEPT !.diverged = TRUE]
        ELSE [t EXCEPT !.keys[p.idx + 1] = key,
                       !.states[p.idx + 1] = "Filled",
                       !.sz = t.sz + 1]

\* for (i = 0; i < oldKeys.size(); ++i) if (oldStates[i] == Filled) insertInternal(oldKeys[i]);
RECURSIVE RehashLoop(_, _, _, _, _)
RehashLoop(t, f, oldKeys, oldStates, i) ==
    IF i > Len(oldKeys) \/ t.diverged THEN t
    ELSE RehashLoop(IF oldStates[i] = "Filled" THEN insertInternal(t, f, oldKeys[i]) ELSE t,
                    f, oldKeys, oldStates, i + 1)

\* Fault variant of rehash: the reinsertion loop stops one slot early
\* (i < oldKeys.size() - 1).
rehashSkipsLastSlot(t, f, newCapacity) ==
    RehashLoop(Construct(newCapacity), f,
               SubSeq(t.keys, 1, Len(t.keys) - 1), SubSeq(t.states, 1, Len(t.states) - 1), 1)

\* Fault variant of rehash: the reset sz = 0 is omitted, so every reinserted
\* key is counted a second time.
rehashKeepsSize(t, f, newCapacity) ==
    RehashLoop([Construct(newCapacity) EXCEPT !.sz = t.sz], f, t.keys, t.states, 1)

rehash(t, f, newCapacity) ==
    RehashLoop(Construct(newCapacity), f, t.keys, t.states, 1)

\* loadFactor() > 0.7.  sz / capacity is the correctly rounded quotient and 0.7
\* the double nearest 7/10, so for the sizes modelled the comparison is exactly
\* 10 * sz > 7 * capacity.
OverLoad(t) == 10 * t.sz > 7 * Capacity(t)

\* Fault variant of insert: grows to nextPrime(capacity) instead of
\* nextPrime(capacity * 2).
insertGrowsUndoubled(t, f, key) ==
    LET t1 == insertInternal(t, f, key)
    IN  IF t1.diverged THEN t1
        ELSE IF OverLoad(t1) THEN rehash(t1, f, nextPrime(Capacity(t1)))
        ELSE t1

\* Fault variant of insert: the load factor is never looked at, so the table
\* never grows.
insertNeverGrows(t, f, key) == insertInternal(t, f, key)

insert(t, f, key) ==
    LET t1 == insertInternal(t, f, key)
    IN  IF t1.diverged THEN t1
        ELSE IF OverLoad(t1) THEN rehash(t1, f, nextPrime(Capacity(t1) * 2))
        ELSE t1

\* The probe loop of contains:
\*   while (states[idx] != Empty) { if (Filled && keys[idx] == key) return true;
\*                                  idx = (idx + 1) % size; if (idx == start) break; }
\*   return false;
\* n counts the evaluations of the while condition (slots examined).  A loop
\* that passes 2 * capacity slots is cut and reported as not terminated.
RECURSIVE ContainsLoop(_, _, _, _, _)
ContainsLoop(t, key, idx, start, n) ==
    IF n > 2 * Capacity(t) THEN [ret |-> FALSE, probes |-> n, done |-> FALSE]
    ELSE IF t.states[idx + 1] = "Empty" THEN [ret |-> FALSE, probes |-> n + 1, done |-> TRUE]
    ELSE IF t.states[idx + 1] = "Filled" /\ t.keys[idx + 1] = key
         THEN [ret |-> TRUE, probes |-> n + 1, done |-> TRUE]
    ELSE IF (idx + 1) % Capacity(t) = start
         THEN [ret |-> FALSE, probes |-> n + 1, done |-> TRUE]
    ELSE ContainsLoop(t, key, (idx + 1) % Capacity(t), start, n + 1)

\* Fault variant of contains: the loop without "if (idx == start) break".
RECURSIVE ContainsLoopNoGuard(_, _, _, _)
ContainsLoopNoGuard(t, key, idx, n) ==
    IF n > 2 * Capacity(t) THEN [ret |-> FALSE, probes |-> n, done |-> FALSE]
    ELSE IF t.states[idx + 1] = "Empty" THEN [ret |-> FALSE, probes |-> n + 1, done |-> TRUE]
    ELSE IF t.states[idx + 1] = "Filled" /\ t.keys[idx + 1] = key
         THEN [ret |-> TRUE, probes |-> n + 1, done |-> TRUE]
    ELSE ContainsLoopNoGuard(t, key, (idx + 1) % Capacity(t), n + 1)

containsRunNoWrapGuard(t, f, key) ==
    ContainsLoopNoGuard(t, key, CallHash(f, key, Capacity(t)), 0)

\* One execution of contains: the value returned, the slots examined, and
\* whether the loop was left.
containsRun(t, f, key) ==
    LET idx == CallHash(f, key, Capacity(t))
    IN  ContainsLoop(t, key, idx, idx, 0)

contains(t, f, key) == containsRun(t, f, key).ret

\* The probe loop of remove: the same walk; on a hit the slot becomes Deleted
\* and sz is decremented.
RECURSIVE RemoveLoop(_, _, _, _, _)
RemoveLoop(t, key, idx, start, n) ==
    IF n > 2 * Capacity(t) THEN [t |-> t, ret |-> FALSE, probes |-> n, done |-> FALSE]
    ELSE IF t.states[idx + 1] = "Empty"
         THEN [t |-> t, ret |-> FALSE, probes |-> n + 1, done |-> TRUE]
    ELSE IF t.states[idx + 1] = "Filled" /\ t.keys[idx + 1] = key
         THEN [t |-> [t EXCEPT !.states[idx + 1] = "Deleted", !.sz = t.sz - 1],
               ret |-> TRUE, probes |-> n + 1, done |-> TRUE]
    ELSE IF (idx + 1) % Capacity(t) = start
         THEN [t |-> t, ret |-> FALSE, probes |-> n + 1, done |-> TRUE]
    ELSE RemoveLoop(t, key, (idx + 1) % Capacity(t), start, n + 1)

\* Fault variant of remove: the slot found is set to Empty instead of Deleted.
removeLeavesEmpty(t, f, key) ==
    LET idx == CallHash(f, key, Capacity(t))
        r == RemoveLoop(t, key, idx, idx, 0)
    IN  [r EXCEPT !.t.states = [i \in 1..Capacity(t) |->
                                   IF r.t.states[i] = "Deleted" /\ t.states[i] = "Filled"
                                   THEN "Empty" ELSE r.t.states[i]]]

\* Fault variant of remove: --sz is omitted.
removeKeepsSize(t, f, key) ==
    LET idx == CallHash(f, key, Capacity(t))
        r == RemoveLoop(t, key, idx, idx, 0)
    IN  [r EXCEPT !.t.sz = t.sz]

\* One execution of remove: the table it leaves, the value returned, the
\* slots examined, and whether the loop was left.
remove(t, f, key) ==
    LET idx == CallHash(f, key, Capacity(t))
    IN  RemoveLoop(t, key, idx, idx, 0)

\* Fault variant of clear: sz = 0 is omitted.
clearKeepsSize(t) == [t EXCEPT !.states = [i \in 1..Capacity(t) |-> "Empty"]]

\* std::fill(states, Empty); sz = 0  (keys is left as it is)
clear(t) == [t EXCEPT !.states = [i \in 1..Capacity(t) |-> "Empty"], !.sz = 0]

\* loadFactor(): static_cast<double>(sz) / keys.size(), kept as <<sz, capacity>>
loadFactor(t) == <<t.sz, Capacity(t)>>

\* Fault variant of the inner while: only an Empty slot ends a cluster, so a
\* tombstone is counted as part of it.
RECURSIVE RunLengthThroughDeleted(_, _)
RunLengthThroughDeleted(ss, i) ==
    IF i <= Len(ss) /\ ss[i] # "Empty" THEN 1 + RunLengthThroughDeleted(ss, i + 1) ELSE 0

\* while (i < keys.size() && states[i] == Filled) { ++len; ++i; }
RECURSIVE RunLength(_, _)
RunLength(ss, i) ==
    IF i <= Len(ss) /\ ss[i] = "Filled" THEN 1 + RunLength(ss, i + 1) ELSE 0

\* the outer loop of averageChainLength
RECURSIVE AverageLoop(_, _, _, _)
AverageLoop(ss, i, clusterCount, total) ==
    IF i > Len(ss) THEN <<total, clusterCount>>
    ELSE IF ss[i] = "Filled"
         THEN AverageLoop(ss, i + RunLength(ss, i), clusterCount + 1, total + RunLength(ss, i))
    ELSE AverageLoop(ss, i + 1, clusterCount, total)

\* averageChainLength(): total / clusterCount kept as <<total, clusterCount>>,
\* and 0.0 as <<0, 1>> when there is no cluster
averageChainLength(t) ==
    LET r == AverageLoop(t.states, 1, 0, 0)
    IN  IF r[2] = 0 THEN <<0, 1>> ELSE r

\* the outer loop of maxChainLength
RECURSIVE MaxLoop(_, _, _)
MaxLoop(ss, i, maxLen) ==
    IF i > Len(ss) THEN maxLen
    ELSE IF ss[i] = "Filled"
         THEN MaxLoop(ss, i + RunLength(ss, i),
                      IF RunLength(ss, i) > maxLen THEN RunLength(ss, i) ELSE maxLen)
    ELSE MaxLoop(ss, i + 1, maxLen)

maxChainLength(t) == MaxLoop(t.states, 1, 0)

\* sizeof(int) and sizeof(State), an enum class with underlying type int
SizeofInt == 4

SizeofState == 4

\* Fault variant of memoryUsage: sz in place of keys.size().
memoryUsageOfSize(t) == t.sz * (SizeofInt + SizeofState)

memoryUsage(t) == Capacity(t) * (SizeofInt + SizeofState)

----------------------------------------------------------------------------
(* The calls on the table object, as effects on its variables and on the  *)
(* record of the last call.                                               *)

\* HashTable table(capacity, f)
ConstructEffect(capacity, f) ==
    /\ keys' = Construct(capacity).keys
    /\ states' = Construct(capacity).states
    /\ sz' = 0
    /\ hashFunc' = f
    /\ diverged' = FALSE
    /\ op' = "construct"
    /\ arg' = capacity
    /\ ret' = "void"
    /\ probes' = 0
    /\ inserted' = {}
    /\ distinctInserts' = TRUE

\* table.insert(key), t being the table insert leaves
InsertEffect(key, t) ==
    /\ keys' = t.keys
    /\ states' = t.states
    /\ sz' = t.sz
    /\ diverged' = t.diverged
    /\ op' = "insert"
    /\ arg' = key
    /\ ret' = "void"
    /\ probes' = 0
    /\ inserted' = inserted \cup {key}
    /\ distinctInserts' = (distinctInserts /\ key \notin inserted)

\* table.contains(key), c being its execution
ContainsEffect(key, c) ==
    /\ op' = "contains"
    /\ arg' = key
    /\ ret' = c.ret
    /\ probes' = c.probes
    /\ diverged' = ~c.done
    /\ UNCHANGED <<keys, states, sz, inserted, distinctInserts>>

\* table.remove(key), r being its execution
RemoveEffect(key, r) ==
    /\ keys' = r.t.keys
    /\ states' = r.t.states
    /\ sz' = r.t.sz
    /\ op' = "remove"
    /\ arg' = key
    /\ ret' = r.ret
    /\ probes' = r.probes
    /\ diverged' = ~r.done
    /\ distinctInserts' = FALSE
    /\ UNCHANGED inserted

\* table.clear(), t being the table it leaves
ClearEffect(t) ==
    /\ keys' = t.keys
    /\ states' = t.states
    /\ sz' = t.sz
    /\ op' = "clear"
    /\ arg' = 0
    /\ ret' = "void"
    /\ probes' = 0
    /\ distinctInserts' = FALSE
    /\ UNCHANGED <<diverged, inserted>>

\* main and runTest are not running
HarnessIdle ==
    /\ pc = "none"
    /\ numKeys = 0
    /\ datasets = <<>>
    /\ dsIdx = 0
    /\ runIdx = 0
    /\ pos = 0
    /\ snapshot = <<>>
    /\ results = <<>>

----------------------------------------------------------------------------
(* Spec: a table of any initial capacity and either strategy, under any   *)
(* sequence of insert / contains / remove / clear calls.                  *)

Init ==
    /\ \E capacity \in 1..MaxInitCap :
          /\ keys = Construct(capacity).keys
          /\ states = Construct(capacity).states
    /\ sz = 0
    /\ hashFunc \in HashFuncs
    /\ diverged = FALSE
    /\ op = "construct"
    /\ arg = 0
    /\ ret = "void"
    /\ probes = 0
    /\ inserted = {}
    /\ distinctInserts = TRUE
    /\ HarnessIdle

Insert(key) ==
    \E t \in {insert(This, hashFunc, key)} :
        /\ ~diverged
        /\ Capacity(t) <= MaxCapacity
        /\ InsertEffect(key, t)
        /\ UNCHANGED <<hashFunc, harnessVars>>

Contains(key) ==
    \E c \in {containsRun(This, hashFunc, key)} :
        /\ ~diverged
        /\ ContainsEffect(key, c)
        /\ UNCHANGED <<hashFunc, harnessVars>>

Remove(key) ==
    \E r \in {remove(This, hashFunc, key)} :
        /\ ~diverged
        /\ RemoveEffect(key, r)
        /\ UNCHANGED <<hashFunc, harnessVars>>

Clear ==
    \E t \in {clear(This)} :
        /\ ~diverged
        /\ ClearEffect(t)
        /\ UNCHANGED <<hashFunc, harnessVars>>

Next ==
    \/ \E key \in Keys : Insert(key)
    \/ \E key \in Keys : Contains(key)
    \/ \E key \in Keys : Remove(key)
    \/ Clear

Spec == Init /\ [][Next]_vars

----------------------------------------------------------------------------
(* Properties of the table under Spec *)

NoEmptySlot == \A i \in 1..Len(keys) : states[i] # "Empty"

HoldsKey(key) == \E i \in 1..Len(keys) : states[i] = "Filled" /\ keys[i] = key

\* Slots (0-based) on the cyclic linear-probe path from slot h up to and
\* including slot p of a table of n slots.
ProbePath(h, p, n) == {(h + d) % n : d \in 0..((p - h) % n)}

\* C1 (Deletion): in every reachable state left by a remove(k) that returned
\* true, contains(k) returns false and remove(k) returns false.
C1_RemoveThenAbsent ==
    (op = "remove" /\ ret = TRUE) =>
        /\ ~contains(This, hashFunc, arg)
        /\ ~remove(This, hashFunc, arg).ret

\* C2 (Duplicate insert is a no-op): an insert(k) taken in a state in which
\* contains(k) is true leaves sz, capacity and every slot's state and key
\* unchanged.
C2_DuplicateInsertNoOp ==
    [][(op' = "insert" /\ contains(This, hashFunc, arg'))
          => UNCHANGED <<keys, states, sz>>]_vars

\* C3 (Round-trip): while the calls since construction inserted pairwise
\* distinct keys (through any number of growths), contains(k) is true for
\* every key k inserted.
C3_RoundTrip ==
    distinctInserts => \A k \in inserted : contains(This, hashFunc, k)

\* C3 witness: three distinct keys inserted, the table grown to 5 slots, and a
\* contains call on one of them has returned true.
C3_Witness ==
    /\ distinctInserts
    /\ Cardinality(inserted) = 3
    /\ Len(keys) = 5
    /\ op = "contains" /\ arg \in inserted /\ ret = TRUE

\* C4 (No false positives): contains(k) is false for every key k that was
\* never an argument of insert, whatever stale values keys holds.
C4_NoFalsePositives ==
    /\ \A k \in Keys \ inserted : ~contains(This, hashFunc, k)
    /\ (op = "contains" /\ arg \notin inserted) => ret = FALSE

\* C4 witness: contains(k) returned false for a never-inserted k after walking
\* past occupied slots, while a slot's stale key equals k and a tombstone
\* exists.
C4_Witness ==
    /\ op = "contains" /\ arg \notin inserted /\ ret = FALSE
    /\ probes >= 2
    /\ \E i \in 1..Len(keys) : keys[i] = arg
    /\ \E i \in 1..Len(keys) : states[i] = "Deleted"

\* C5 (No duplicates): no two Filled slots hold equal keys.
C5_NoDuplicateKeys ==
    \A i, j \in 1..Len(keys) :
        (i # j /\ states[i] = "Filled" /\ states[j] = "Filled") => keys[i] # keys[j]

\* C6 (Probe reachability): for every Filled slot p holding key k, no slot on
\* the cyclic probe path from hash(k, capacity) up to and including p is Empty.
C6_ProbeReachable ==
    \A p \in 1..Len(keys) :
        states[p] = "Filled" =>
            \A q \in ProbePath(CallHash(hashFunc, keys[p], Len(keys)), p - 1, Len(keys)) :
                states[q + 1] # "Empty"

\* C6 witness: a Filled slot away from its key's home bucket with a tombstone
\* on its probe path.
C6_Witness ==
    \E p \in 1..Len(keys) :
        /\ states[p] = "Filled"
        /\ CallHash(hashFunc, keys[p], Len(keys)) # p - 1
        /\ \E q \in ProbePath(CallHash(hashFunc, keys[p], Len(keys)), p - 1, Len(keys)) :
              states[q + 1] = "Deleted"

\* C7 (Load-factor bound): in the state left by any insert call,
\* 10 * sz <= 7 * capacity, hence sz < capacity.
C7_LoadFactorBound ==
    op = "insert" => (10 * sz <= 7 * Len(keys) /\ sz < Len(keys))

\* C7 witness: the second of two distinct inserts filled a table of at most 2
\* slots, and the single growth left 2 keys in 5 slots.
C7_Witness ==
    /\ op = "insert"
    /\ distinctInserts
    /\ Cardinality(inserted) = 2
    /\ Len(keys) = 5
    /\ sz = 2

\* C8 (Saturation): in every reachable state, contains(k) and remove(k) leave
\* their loop after examining at most capacity slots, and return false when no
\* Filled slot holds k.
C8_ProbeBounded ==
    /\ ~diverged
    /\ op \in {"contains", "remove"} => probes <= Len(keys)
    /\ \A k \in Keys :
          LET c == containsRun(This, hashFunc, k)
              r == remove(This, hashFunc, k)
          IN  /\ c.done /\ c.probes <= Len(keys)
              /\ r.done /\ r.probes <= Len(keys)
              /\ ~HoldsKey(k) => (~c.ret /\ ~r.ret)

\* C8 witness: a contains call on a table with no Empty slot examined every
\* slot and returned false.
C8_Witness ==
    /\ NoEmptySlot
    /\ op = "contains" /\ ret = FALSE
    /\ probes = Len(keys)
    /\ Len(keys) >= 2

----------------------------------------------------------------------------
(* HashSpec: the two hash strategies as pure functions, applied to keys    *)
(* from the whole int range and to bucket counts 1..MaxTableSize.          *)

\* bucket counts 1..MaxTableSize
MaxTableSize == 17

\* keys at the ends of the int range and around the 16-bit carry, beside Keys
EdgeKeys ==
    {5, 17, 22, 39, 255, 256, 65535, 65536, 65537, 1073741824, 2147483647,
     0 - 65536, 0 - 65537, 0 - 2147483647, 0 - 2147483647 - 1}

HashKeys == Keys \cup EdgeKeys

HashInit ==
    /\ keys = <<>>
    /\ states = <<>>
    /\ sz = 0
    /\ hashFunc = "fibonacciHash"
    /\ diverged = FALSE
    /\ op = "none"
    /\ arg = <<0, 1>>
    /\ ret = 0
    /\ probes = 0
    /\ inserted = {}
    /\ distinctInserts = TRUE
    /\ HarnessIdle

\* one call f(key, tableSize) of the strategy hashFunc names
CallStrategy(f, key, tableSize) ==
    /\ hashFunc' = f
    /\ op' = "hash"
    /\ arg' = <<key, tableSize>>
    /\ ret' = CallHash(f, key, tableSize)
    /\ UNCHANGED <<keys, states, sz, diverged, probes, inserted, distinctInserts, harnessVars>>

HashNext ==
    \/ \E key \in HashKeys, tableSize \in 1..MaxTableSize :
          CallStrategy("fibonacciHash", key, tableSize)
    \/ \E key \in HashKeys, tableSize \in 1..MaxTableSize :
          CallStrategy("moduloHash", key, tableSize)

HashSpec == HashInit /\ [][HashNext]_vars

RECURSIVE IsPowerOfTwo(_)
IsPowerOfTwo(n) == n = 1 \/ (n > 1 /\ n % 2 = 0 /\ IsPowerOfTwo(n \div 2))

\* u >> (32 - b) for a uint32_t u = <<hi, lo>> and tableSize = 2^b <= 2^16:
\* the high-order b bits of u.
HighBits(u, tableSize) == u[1] \div (Half \div tableSize)

\* C9 (Fibonacci strategy formula): for a power-of-two bucket count 2^b,
\* fibonacciHash(key, 2^b) is the high-order b bits of the 32-bit product
\* unsigned(key) * 2654435769.
C9_FibonacciHighBits ==
    (op = "hash" /\ hashFunc = "fibonacciHash" /\ IsPowerOfTwo(arg[2])) =>
        ret = HighBits(MulFib(ToU32(arg[1])), arg[2])

----------------------------------------------------------------------------
(* HarnessSpec: main -> runTest -> HashTable.  Clock readings, console and *)
(* CSV output are not modelled; every table call is one step.              *)

\* numKeys read from std::cin is 0 (or unreadable) or 1..MaxNumKeys
MaxNumKeys == 12

\* the output of std::mt19937 rng(42) through dist is not computed: randomKeys
\* is one of the streams 0..MaxStream below
MaxStream == 1

\* const size_t tableSize = 17
TableSize == 17

\* size_t runs = 3
Runs == 3

\* std::uniform_int_distribution<int> dist(0, 1u << 30)
DistMax == 1073741824

\* randomKeys[i] (0-based i) of stream s: values in 0..DistMax, stream 0 with
\* repeated keys that are multiples of tableSize
RandomKey(s, i) ==
    IF s = 0 THEN TableSize * (i % 5)
    ELSE (i * i * 7919 * s + 12345 * s) % (DistMax + 1)

\* sequentialKeys[i] = static_cast<int>(i)
SequentialKey(i) == i

\* clusteredKeys[i] = (i / 10) * 20 + i % 10
ClusteredKey(i) == ((i \div 10) * 20) + (i % 10)

\* the key vector *ds.data of the current runTest call
CurrentKeys == datasets[dsIdx]

\* the locals loadFactor, avgChain, maxChain, mem of runTest at its entry;
\* taken counts the executions of the body of if (i == 0) in this call
NoSnapshot ==
    [loadFactor |-> <<0, 1>>, avgChain |-> <<0, 1>>, maxChain |-> 0, mem |-> 0, taken |-> 0]

HarnessInit ==
    /\ keys = <<>>
    /\ states = <<>>
    /\ sz = 0
    /\ hashFunc = "none"
    /\ diverged = FALSE
    /\ op = "none"
    /\ arg = 0
    /\ ret = "void"
    /\ probes = 0
    /\ inserted = {}
    /\ distinctInserts = TRUE
    /\ pc = "main_read"
    /\ numKeys = 0
    /\ datasets = <<>>
    /\ dsIdx = 0
    /\ runIdx = 0
    /\ pos = 0
    /\ snapshot = <<>>
    /\ results = <<>>

\* if (!(std::cin >> numKeys) || numKeys == 0) return 1;
ReadNumKeys ==
    /\ pc = "main_read"
    /\ \E n \in 0..MaxNumKeys :
          /\ numKeys' = n
          /\ pc' = IF n = 0 THEN "exit1" ELSE "main_open"
    /\ UNCHANGED <<tableVars, hashFunc, datasets, dsIdx, runIdx, pos, snapshot, results>>

\* std::ofstream csv("results.csv"); if (!csv) return 1;
OpenCsv ==
    /\ pc = "main_open"
    /\ \E ok \in BOOLEAN : pc' = IF ok THEN "main_generate" ELSE "exit1"
    /\ UNCHANGED <<tableVars, hashFunc, numKeys, datasets, dsIdx, runIdx, pos, snapshot, results>>

\* the three key vectors are filled; the loop over datasets starts with
\* runTest(*ds.data, fibonacciHash, tableSize)
GenerateKeys ==
    /\ pc = "main_generate"
    /\ \E s \in 0..MaxStream :
          datasets' = << [i \in 1..numKeys |-> RandomKey(s, i - 1)],
                         [i \in 1..numKeys |-> SequentialKey(i - 1)],
                         [i \in 1..numKeys |-> ClusteredKey(i - 1)] >>
    /\ dsIdx' = 1
    /\ hashFunc' = "fibonacciHash"
    /\ runIdx' = 0
    /\ snapshot' = NoSnapshot
    /\ pc' = "run_construct"
    /\ UNCHANGED <<tableVars, numKeys, pos, results>>

\* HashTable table(initialSize, func);
ConstructTable ==
    /\ pc = "run_construct"
    /\ ConstructEffect(TableSize, hashFunc)
    /\ pos' = 1
    /\ pc' = "run_insert"
    /\ UNCHANGED <<numKeys, datasets, dsIdx, runIdx, snapshot, results>>

\* for (int k : keys) table.insert(k);
InsertStep ==
    /\ pc = "run_insert"
    /\ pos <= numKeys
    /\ ~diverged
    /\ \E t \in {insert(This, hashFunc, CurrentKeys[pos])} : InsertEffect(CurrentKeys[pos], t)
    /\ pos' = pos + 1
    /\ UNCHANGED <<hashFunc, pc, numKeys, datasets, dsIdx, runIdx, snapshot, results>>

\* Fault variant of the snapshot: the test if (i == 0) is missing, so the
\* structural metrics are taken in every repetition.
EndInsertPassEveryRun ==
    /\ pc = "run_insert"
    /\ pos > numKeys
    /\ ~diverged
    /\ snapshot' = [loadFactor |-> loadFactor(This),
                    avgChain |-> averageChainLength(This),
                    maxChain |-> maxChainLength(This),
                    mem |-> memoryUsage(This),
                    taken |-> snapshot.taken + 1]
    /\ pos' = 1
    /\ pc' = "run_contains"
    /\ UNCHANGED <<tableVars, hashFunc, numKeys, datasets, dsIdx, runIdx, results>>

\* the insert pass is over: if (i == 0) the structural metrics are taken
EndInsertPass ==
    /\ pc = "run_insert"
    /\ pos > numKeys
    /\ ~diverged
    /\ snapshot' = IF runIdx = 0
                   THEN [loadFactor |-> loadFactor(This),
                         avgChain |-> averageChainLength(This),
                         maxChain |-> maxChainLength(This),
                         mem |-> memoryUsage(This),
                         taken |-> snapshot.taken + 1]
                   ELSE snapshot
    /\ pos' = 1
    /\ pc' = "run_contains"
    /\ UNCHANGED <<tableVars, hashFunc, numKeys, datasets, dsIdx, runIdx, results>>

\* for (int k : keys) table.contains(k);
ContainsStep ==
    /\ pc = "run_contains"
    /\ pos <= numKeys
    /\ ~diverged
    /\ \E c \in {containsRun(This, hashFunc, CurrentKeys[pos])} :
          ContainsEffect(CurrentKeys[pos], c)
    /\ pos' = pos + 1
    /\ UNCHANGED <<hashFunc, pc, numKeys, datasets, dsIdx, runIdx, snapshot, results>>

EndContainsPass ==
    /\ pc = "run_contains"
    /\ pos > numKeys
    /\ ~diverged
    /\ pos' = 1
    /\ pc' = "run_remove"
    /\ UNCHANGED <<tableVars, hashFunc, numKeys, datasets, dsIdx, runIdx, snapshot, results>>

\* for (int k : keys) table.remove(k);
RemoveStep ==
    /\ pc = "run_remove"
    /\ pos <= numKeys
    /\ ~diverged
    /\ \E r \in {remove(This, hashFunc, CurrentKeys[pos])} : RemoveEffect(CurrentKeys[pos], r)
    /\ pos' = pos + 1
    /\ UNCHANGED <<hashFunc, pc, numKeys, datasets, dsIdx, runIdx, snapshot, results>>

\* end of the loop body: ~HashTable() calls clear(); ++i
EndRun ==
    /\ pc = "run_remove"
    /\ pos > numKeys
    /\ ~diverged
    /\ \E t \in {clear(This)} : ClearEffect(t)
    /\ runIdx' = runIdx + 1
    /\ pos' = 0
    /\ pc' = IF runIdx + 1 < Runs THEN "run_construct" ELSE "run_return"
    /\ UNCHANGED <<hashFunc, numKeys, datasets, dsIdx, snapshot, results>>

\* runTest returns its Metrics; main goes on to the moduloHash call for the
\* same dataset, to the next dataset, or to return 0
ReturnMetrics ==
    /\ pc = "run_return"
    /\ results' = Append(results, [dataset |-> dsIdx, method |-> hashFunc, metrics |-> snapshot])
    /\ IF hashFunc = "fibonacciHash"
       THEN /\ hashFunc' = "moduloHash"
            /\ dsIdx' = dsIdx
            /\ pc' = "run_construct"
       ELSE IF dsIdx < 3
       THEN /\ hashFunc' = "fibonacciHash"
            /\ dsIdx' = dsIdx + 1
            /\ pc' = "run_construct"
       ELSE /\ hashFunc' = hashFunc
            /\ dsIdx' = dsIdx
            /\ pc' = "exit0"
    /\ runIdx' = 0
    /\ snapshot' = NoSnapshot
    /\ UNCHANGED <<tableVars, numKeys, datasets, pos>>

HarnessNext ==
    \/ ReadNumKeys
    \/ OpenCsv
    \/ GenerateKeys
    \/ ConstructTable
    \/ InsertStep
    \/ EndInsertPass
    \/ ContainsStep
    \/ EndContainsPass
    \/ RemoveStep
    \/ EndRun
    \/ ReturnMetrics

HarnessSpec == HarnessInit /\ [][HarnessNext]_vars

\* a step of the harness that is a call of insert, contains or remove
TableCallAt == pc \in {"run_insert", "run_contains", "run_remove"} /\ pos <= numKeys

\* C10 (Strategy pairing): every harness call that reaches the Fibonacci
\* strategy passes it a power-of-two bucket count, at the capacity the call
\* starts with and at the capacity a growth inside it produces.
C10_FibonacciPowerOfTwo ==
    [][(hashFunc = "fibonacciHash" /\ TableCallAt)
          => (IsPowerOfTwo(Len(keys)) /\ IsPowerOfTwo(Len(keys')))]_vars

----------------------------------------------------------------------------
(* Further properties of the hash strategies under HashSpec *)

\* (key mod 2^32) mod n from the signed key: 2^32 mod n is added to the
\* residue of a negative key.
UnsignedMod(key, n) ==
    IF key >= 0 THEN key % n
    ELSE ((key % n) + (((Half % n) * (Half % n)) % n)) % n

\* C11 (Hash range): for every key of the int range and every bucket count
\* >= 1, both strategies return an index in 0..bucketCount-1, and moduloHash
\* returns (key mod 2^32) mod bucketCount; so the home bucket the table
\* operations start from is a slot of the table.
C11_HashRange ==
    /\ op = "hash" =>
          /\ ret >= 0 /\ ret < arg[2]
          /\ hashFunc = "moduloHash" => ret = UnsignedMod(arg[1], arg[2])
    /\ \A key \in HashKeys, n \in 1..MaxTableSize :
          /\ fibonacciHash(key, n) \in 0..(n - 1)
          /\ moduloHash(key, n) \in 0..(n - 1)

\* C11 witness: moduloHash was called with a negative key and a bucket count
\* of 17 and returned a nonzero index.
C11_Witness ==
    /\ op = "hash" /\ hashFunc = "moduloHash"
    /\ arg[1] < 0 /\ arg[2] = 17
    /\ ret > 0

----------------------------------------------------------------------------
(* Further properties of the table under Spec *)

IsPrimeNumber(p) == p > 1 /\ \A d \in 2..(p - 1) : p % d # 0

\* the smallest prime >= n (one exists in n..2n+2)
SmallestPrimeAtLeast(n) ==
    CHOOSE p \in n..(2 * n + 2) :
        IsPrimeNumber(p) /\ \A q \in n..(p - 1) : ~IsPrimeNumber(q)

\* C12 (Growth trigger and size): an insert call changes the capacity exactly
\* when 10 * sz > 7 * capacity holds after the key is placed, and then the new
\* capacity is the smallest prime >= 2 * old capacity; otherwise the capacity
\* stays.
C12_GrowthTrigger ==
    [][op' = "insert" =>
          LET placed == insertInternal(This, hashFunc, arg')
          IN  IF 10 * placed.sz > 7 * Len(keys)
              THEN /\ Len(keys') # Len(keys)
                   /\ Len(keys') = SmallestPrimeAtLeast(2 * Len(keys))
              ELSE Len(keys') = Len(keys)]_vars

\* C12 witness: three distinct keys were inserted; the table grew to 5 slots
\* and the last insert left the capacity at 5 with 3 of 5 slots filled.
C12_Witness ==
    /\ op = "insert"
    /\ distinctInserts
    /\ Cardinality(inserted) = 3
    /\ Len(keys) = 5
    /\ sz = 3

\* the keys held in Filled slots of table t
FilledKeys(t) == {t.keys[i] : i \in {j \in 1..Len(t.keys) : t.states[j] = "Filled"}}

\* the indices of the Filled slots of t, ascending
FilledSlots(t) ==
    SelectSeq([i \in 1..Len(t.states) |-> i], LAMBDA i : t.states[i] = "Filled")

\* rehash reinserting the old slots slots[order[1]], slots[order[2]], ...
RECURSIVE RehashInOrder(_, _, _, _, _, _)
RehashInOrder(t, f, oldKeys, slots, order, i) ==
    IF i > Len(slots) \/ t.diverged THEN t
    ELSE RehashInOrder(insertInternal(t, f, oldKeys[slots[order[i]]]),
                       f, oldKeys, slots, order, i + 1)

\* table new is a rebuild of table old: no tombstone, the same set of keys,
\* and sz the number of those keys
IsRebuildOf(new, old) ==
    /\ \A i \in 1..Len(new.states) : new.states[i] # "Deleted"
    /\ FilledKeys(new) = FilledKeys(old)
    /\ new.sz = Cardinality(FilledKeys(old))

\* C13 (Growth rebuild): in the state right after an insert-triggered growth no
\* slot is Deleted, the Filled slots hold the set of keys they held just
\* before the growth, and sz is the number of those keys; the same is true of
\* a rebuild that reinserts the old Filled slots in any other order.
C13_GrowthRebuild ==
    [][(op' = "insert" /\ Len(keys') # Len(keys)) =>
          \E placed \in {insertInternal(This, hashFunc, arg')} :
          \E grown \in {Construct(Len(keys'))} :
          \E slots \in {FilledSlots(placed)} :
              /\ IsRebuildOf(Table(keys', states', sz'), placed)
              /\ \A order \in Permutations(1..Len(slots)) :
                    \E rebuilt \in {RehashInOrder(grown, hashFunc, placed.keys,
                                                  slots, order, 1)} :
                        IsRebuildOf(rebuilt, placed)]_vars

\* C13 witness: an insert has left a table of 11 slots, which only a growth
\* from 5 slots with 4 Filled slots produces; with three keys that growth
\* started from duplicates, and the rebuilt table holds each key once.
C13_Witness ==
    /\ op = "insert"
    /\ Len(keys) = 11
    /\ sz = Cardinality(FilledKeys(This))
    /\ FilledKeys(This) = inserted
    /\ \A i \in 1..Len(states) : states[i] # "Deleted"

----------------------------------------------------------------------------
(* MetricsSpec: averageChainLength and maxChainLength read on a table in  *)
(* any slot-state array that inserts and removes can leave behind.        *)

MaxSlots == 5

SlotStates == {"Empty", "Filled", "Deleted"}

\* the example array of 10 slots: F F E F D F F F E E
ExampleSlots ==
    <<"Filled", "Filled", "Empty", "Filled", "Deleted",
      "Filled", "Filled", "Filled", "Empty", "Empty">>

SlotArrays == UNION {[1..n -> SlotStates] : n \in 1..MaxSlots} \cup {ExampleSlots}

NumFilled(ss) == Cardinality({i \in 1..Len(ss) : ss[i] = "Filled"})

\* A table of moduloHash whose slot i - 1 was filled by insert(i - 1) and,
\* where Deleted, emptied by remove(i - 1); a slot never written holds 0.
\* insert leaves loadFactor() <= 0.7 behind.
MetricsInit ==
    /\ \E ss \in SlotArrays :
          /\ 10 * NumFilled(ss) <= 7 * Len(ss)
          /\ states = ss
          /\ keys = [i \in 1..Len(ss) |-> IF ss[i] = "Empty" THEN 0 ELSE i - 1]
          /\ sz = NumFilled(ss)
    /\ hashFunc = "moduloHash"
    /\ diverged = FALSE
    /\ op = "none"
    /\ arg = 0
    /\ ret = "void"
    /\ probes = 0
    /\ inserted = {}
    /\ distinctInserts = TRUE
    /\ HarnessIdle

\* table.averageChainLength()
AverageChainLength ==
    /\ op' = "averageChainLength"
    /\ ret' = averageChainLength(This)
    /\ UNCHANGED <<keys, states, sz, hashFunc, diverged, arg, probes, inserted,
                   distinctInserts, harnessVars>>

\* table.maxChainLength()
MaxChainLength ==
    /\ op' = "maxChainLength"
    /\ ret' = maxChainLength(This)
    /\ UNCHANGED <<keys, states, sz, hashFunc, diverged, arg, probes, inserted,
                   distinctInserts, harnessVars>>

MetricsNext ==
    \/ AverageChainLength
    \/ MaxChainLength

MetricsSpec == MetricsInit /\ [][MetricsNext]_vars

\* the maximal runs of contiguous Filled slots of ss, as pairs <<first, last>>
MaximalRuns(ss) ==
    {r \in (1..Len(ss)) \X (1..Len(ss)) :
        /\ r[1] <= r[2]
        /\ \A i \in r[1]..r[2] : ss[i] = "Filled"
        /\ r[1] = 1 \/ ss[r[1] - 1] # "Filled"
        /\ r[2] = Len(ss) \/ ss[r[2] + 1] # "Filled"}

RunLengths(ss) == {r[2] - r[1] + 1 : r \in MaximalRuns(ss)}

LongestRun(ss) ==
    IF MaximalRuns(ss) = {} THEN 0
    ELSE CHOOSE n \in RunLengths(ss) : \A m \in RunLengths(ss) : m <= n

\* (number of Filled slots) / (number of runs) as a pair, 0 as <<0, 1>>
MeanRun(ss) ==
    IF MaximalRuns(ss) = {} THEN <<0, 1>>
    ELSE <<NumFilled(ss), Cardinality(MaximalRuns(ss))>>

\* C14 (Cluster metrics): maxChainLength returns the length of the longest
\* maximal run of contiguous Filled slots, Deleted and Empty both ending a
\* run, and averageChainLength returns (number of Filled slots) / (number of
\* runs), or 0 without a run.  The array F F E F D F F F E E has the runs of
\* lengths 2, 1, 3, average 6 / 3 = 2 and maximum 3.  The loops agree with
\* these definitions on every array of SlotArrays as well, the ones over the
\* load limit included (evaluated in the states of the example array).
C14_ClusterMetrics ==
    /\ op = "maxChainLength" => ret = LongestRun(states)
    /\ op = "averageChainLength" => ret = MeanRun(states)
    /\ states = ExampleSlots =>
          /\ MaximalRuns(states) = {<<1, 2>>, <<4, 4>>, <<6, 8>>}
          /\ op = "maxChainLength" => ret = 3
          /\ op = "averageChainLength" => ret = <<6, 3>>
          /\ \A ss \in SlotArrays :
                /\ MaxLoop(ss, 1, 0) = LongestRun(ss)
                /\ AverageLoop(ss, 1, 0, 0) = <<NumFilled(ss), Cardinality(MaximalRuns(ss))>>

\* C14 witness: the average was read on the example array and is 6 / 3.
C14_Witness ==
    /\ states = ExampleSlots
    /\ op = "averageChainLength"
    /\ ret[1] = 2 * ret[2]

----------------------------------------------------------------------------
(* PlacementSpec: runTest(keys, func, 17) called with a short key vector  *)
(* and either strategy.                                                   *)

MaxPlace == 3

\* 5, 22, 39 have home 5 and 16, 33 have home 16 under moduloHash at 17 slots
PlaceKeys == {5, 6, 16, 22, 33, 39}

PlaceVectors == UNION {[1..n -> PlaceKeys] : n \in 1..MaxPlace}

\* entry of runTest: the table is not constructed yet
PlacementInit ==
    /\ keys = <<>>
    /\ states = <<>>
    /\ sz = 0
    /\ hashFunc \in HashFuncs
    /\ diverged = FALSE
    /\ op = "none"
    /\ arg = 0
    /\ ret = "void"
    /\ probes = 0
    /\ inserted = {}
    /\ distinctInserts = TRUE
    /\ pc = "run_construct"
    /\ \E ks \in PlaceVectors :
          /\ datasets = <<ks>>
          /\ numKeys = Len(ks)
    /\ dsIdx = 1
    /\ runIdx = 0
    /\ pos = 0
    /\ snapshot = NoSnapshot
    /\ results = <<>>

PlacementNext ==
    \/ ConstructTable
    \/ InsertStep
    \/ EndInsertPass
    \/ ContainsStep
    \/ EndContainsPass
    \/ RemoveStep
    \/ EndRun

PlacementSpec == PlacementInit /\ [][PlacementNext]_vars

\* number of keys of the vector the insert pass of this repetition has inserted
InsertedCount ==
    IF pc = "run_insert" THEN pos - 1
    ELSE IF pc = "run_contains" THEN numKeys
    ELSE 0

\* the table of this repetition after its first n inserts
RECURSIVE TableAfter(_)
TableAfter(n) ==
    IF n = 0 THEN Construct(TableSize)
    ELSE insert(TableAfter(n - 1), hashFunc, CurrentKeys[n])

Home(key) == CallHash(hashFunc, key, TableSize)

\* the keys CurrentKeys[a..b] are distinct and share their home bucket
SameHomeRun(a, b) ==
    /\ a <= b
    /\ \A i, j \in a..b : i # j => CurrentKeys[i] # CurrentKeys[j]
    /\ \A i \in a..b : Home(CurrentKeys[i]) = Home(CurrentKeys[a])

\* the slot h + n (mod capacity), as an index of keys and states
SlotAfter(h, n) == ((h + n) % Len(keys)) + 1

\* CurrentKeys[a..b] occupy the slots h, h + 1, ... in insertion order
PlacedFromHome(a, b) ==
    \A i \in a..b :
        /\ states[SlotAfter(Home(CurrentKeys[a]), i - a)] = "Filled"
        /\ keys[SlotAfter(Home(CurrentKeys[a]), i - a)] = CurrentKeys[i]

\* C15 as stated: on a table with no Deleted slots, m distinct keys sharing
\* home h, inserted one after the other without growth, occupy the slots
\* h, ..., h + m - 1 (mod capacity) in insertion order.  The m keys are taken
\* to be all the keys of home h: none was inserted before them.
C15_PlacementOnAnyTable ==
    \A a, b \in 1..InsertedCount :
        (/\ SameHomeRun(a, b)
         /\ \A i \in 1..(a - 1) : Home(CurrentKeys[i]) # Home(CurrentKeys[a])
         /\ Len(keys) = TableSize
         /\ \A i \in 1..TableSize : TableAfter(a - 1).states[i] # "Deleted")
        => PlacedFromHome(a, b)

\* C15 (Linear-probe placement), amended: on a table with no Deleted slots
\* whose slots h, ..., h + m - 1 (mod capacity) are Empty, m distinct keys
\* sharing home h, inserted one after the other without growth, occupy these
\* slots in insertion order; with capacity 17 and moduloHash the keys 5, 22,
\* 39 end in slots 5, 6, 7, the capacity stays 17 and the maximum cluster
\* length is 3.
C15_PlacementOnEmptySlots ==
    /\ \A a, b \in 1..InsertedCount :
          \E before \in {TableAfter(a - 1)} :
              (/\ SameHomeRun(a, b)
               /\ Len(keys) = TableSize
               /\ \A i \in 1..TableSize : before.states[i] # "Deleted"
               /\ \A n \in 0..(b - a) :
                     before.states[SlotAfter(Home(CurrentKeys[a]), n)] = "Empty")
              => PlacedFromHome(a, b)
    /\ (pc = "run_contains" /\ hashFunc = "moduloHash" /\ CurrentKeys = <<5, 22, 39>>) =>
          /\ Len(keys) = 17
          /\ \A i \in 1..3 : states[5 + i] = "Filled" /\ keys[5 + i] = CurrentKeys[i]
          /\ maxChainLength(This) = 3
          /\ runIdx = 0 => snapshot.maxChain = 3

\* C15 witness: the insert pass of the first repetition has put 5, 22, 39
\* into a moduloHash table and the snapshot shows one cluster of 3.
C15_Witness ==
    /\ pc = "run_contains"
    /\ runIdx = 0
    /\ hashFunc = "moduloHash"
    /\ CurrentKeys = <<5, 22, 39>>
    /\ SameHomeRun(1, 3)
    /\ PlacedFromHome(1, 3)
    /\ snapshot.maxChain = 3

----------------------------------------------------------------------------
(* Further properties of the table operations under Spec *)

\* C16 (Memory monotonicity): no operation decreases the capacity or
\* memoryUsage() = capacity * (sizeof(int) + sizeof(State)); contains, remove
\* and clear leave the capacity as it is, and the capacity changes only in an
\* insert whose insertInternal leaves the load factor above 0.7.
C16_MemoryMonotone ==
    [][/\ Len(keys') >= Len(keys)
       /\ memoryUsage(Table(keys', states', sz')) >= memoryUsage(This)
       /\ memoryUsage(This) = Len(keys) * 8
       /\ op' \in {"contains", "remove", "clear"} => Len(keys') = Len(keys)
       /\ Len(keys') # Len(keys) =>
             /\ op' = "insert"
             /\ OverLoad(insertInternal(This, hashFunc, arg'))]_vars

\* C16 witness: a table that grew to 11 slots was emptied by clear and still
\* takes 88 bytes.
C16_Witness ==
    /\ op = "clear"
    /\ Len(keys) = 11
    /\ sz = 0
    /\ memoryUsage(This) = 88

\* C17 (remove effect): remove(k) returns true exactly when contains(k) was
\* true before the call; then exactly one slot changes, from Filled with key
\* k to Deleted, and sz decreases by 1; when it returns false no slot, sz or
\* capacity changes.
C17_RemoveEffect ==
    [][op' = "remove" =>
          \E was \in {contains(This, hashFunc, arg')} :
              /\ ret' = was
              /\ keys' = keys
              /\ Len(states') = Len(states)
              /\ IF ret'
                 THEN /\ \E i \in 1..Len(states) :
                            /\ states[i] = "Filled"
                            /\ keys[i] = arg'
                            /\ states'[i] = "Deleted"
                            /\ \A j \in 1..Len(states) : j # i => states'[j] = states[j]
                      /\ sz' = sz - 1
                 ELSE /\ states' = states
                      /\ sz' = sz]_vars

\* C17 witness: remove(k) returned true and turned one slot into a tombstone
\* while a second Filled copy of k stays in the table.
C17_Witness ==
    /\ op = "remove"
    /\ ret = TRUE
    /\ \E i, j \in 1..Len(keys) :
          /\ states[i] = "Deleted" /\ keys[i] = arg
          /\ states[j] = "Filled" /\ keys[j] = arg

\* C19 (size counter): between public operations sz is the number of Filled
\* slots, so it is never below 0 and never above the capacity.
C19_SizeCountsFilled ==
    /\ sz = NumFilled(states)
    /\ sz >= 0
    /\ sz <= Len(keys)

\* C19 witness: remove has taken the last key out of a table that holds
\* tombstones only, and sz is 0.
C19_Witness ==
    /\ op = "remove"
    /\ ret = TRUE
    /\ sz = 0
    /\ Cardinality({i \in 1..Len(states) : states[i] = "Deleted"}) >= 2

\* C20 (insert terminates): no call leaves control in a probe loop; between
\* operations at least one slot is not Filled, and an insert of any key,
\* the reinsertions of a rehash it triggers included, leaves its probe loops.
C20_InsertTerminates ==
    /\ ~diverged
    /\ \E i \in 1..Len(states) : states[i] # "Filled"
    /\ \A key \in Keys : ~insert(This, hashFunc, key).diverged

\* C20 witness: an insert ran on 5 slots of which one was not Filled, grew
\* the table to 11 slots in a rehash of 4 reinsertions, and returned.
C20_Witness ==
    /\ op = "insert"
    /\ ~diverged
    /\ Len(keys) = 11
    /\ sz = Cardinality(inserted)
    /\ sz = 3

----------------------------------------------------------------------------
(* Further properties of runTest under HarnessSpec *)

RunPcs == {"run_construct", "run_insert", "run_contains", "run_remove"}

\* the pass that follows each position of runTest's loop body
NextPhase(p) ==
    CASE p = "run_construct" -> {"run_insert"}
      [] p = "run_insert" -> {"run_contains"}
      [] p = "run_contains" -> {"run_remove"}
      [] p = "run_remove" -> {"run_construct", "run_return"}

\* the table call a pass makes
PassCall(p) ==
    CASE p = "run_insert" -> "insert"
      [] p = "run_contains" -> "contains"
      [] p = "run_remove" -> "remove"

\* one step of runTest's loop, as C18 describes it
PhaseOrderStep ==
    pc \in RunPcs =>
        \* a fresh empty table of the initial capacity
        /\ pc = "run_construct" =>
              /\ pc' = "run_insert" /\ pos' = 1 /\ op' = "construct"
              /\ Len(keys') = TableSize /\ sz' = 0
              /\ \A i \in 1..TableSize : states'[i] = "Empty"
        \* the passes follow each other, each only after the last key
        /\ pc' # pc =>
              /\ pc' \in NextPhase(pc)
              /\ pc # "run_construct" => pos = numKeys + 1
              /\ pc' \in {"run_contains", "run_remove"} => pos' = 1
        /\ pc' = "run_construct" => runIdx' < Runs
        /\ pc' = "run_return" => runIdx' = Runs
        \* a pass calls its operation on the keys in their order
        /\ (pc' = pc /\ pc # "run_construct") =>
              /\ pos <= numKeys
              /\ op' = PassCall(pc)
              /\ arg' = CurrentKeys[pos]
              /\ pos' = pos + 1
        \* between two passes no call is made on the table
        /\ (pc' # pc /\ pc \in {"run_insert", "run_contains"}) => UNCHANGED tableVars
        /\ UNCHANGED <<datasets, dsIdx, numKeys>>
        \* the snapshot
        /\ snapshot.taken = IF runIdx = 0 /\ pc \in {"run_construct", "run_insert"}
                            THEN 0 ELSE 1
        /\ snapshot' # snapshot =>
              /\ runIdx = 0 /\ pc = "run_insert" /\ pc' = "run_contains"
              /\ snapshot'.loadFactor = loadFactor(This)
              /\ snapshot'.avgChain = averageChainLength(This)
              /\ snapshot'.maxChain = maxChainLength(This)
              /\ snapshot'.mem = memoryUsage(This)
              /\ sz = Cardinality({CurrentKeys[i] : i \in 1..numKeys})
        /\ pc' = "run_return" => snapshot'.taken = 1

\* C18 (Harness phase order): every repetition of runTest constructs an empty
\* table of the initial capacity, then makes its insert calls, then its
\* contains calls, then its remove calls, each pass over the key vector from
\* first to last; the structural snapshot is taken once, in the first
\* repetition, between the last insert and the first contains, from the
\* table the inserts left.
C18_PhaseOrder == [][PhaseOrderStep]_vars

\* C18 witness: the third repetition has made its last remove call; the
\* snapshot was taken once, from a table that held the keys.
C18_Witness ==
    /\ pc = "run_remove"
    /\ runIdx = 2
    /\ pos = numKeys + 1
    /\ numKeys >= 2
    /\ op = "remove"
    /\ arg = CurrentKeys[numKeys]
    /\ snapshot.taken = 1
    /\ snapshot.loadFactor[1] >= 2

====
